---------------------------- MODULE Spec2Model ----------------------------
(***************************************************************************)
(* TheScout API (v0), src/app.py: the in-memory recruiting pipeline.       *)
(*                                                                         *)
(* State: the four collections of DB that the handlers use (roles,         *)
(* candidates, candidate_submissions, matches), kept in insertion order as *)
(* Python dicts keep it, so an identifier made by _id() is the position of *)
(* its record.  uuid4 is modelled as a draw that never repeats: the n-th   *)
(* share token minted is <<n>>, and None is the empty tuple.  Fields no    *)
(* handler reads (project_id, level, location, name, years_exp, ts, ...)   *)
(* are left out; an absent email is the empty string.                      *)
(*                                                                         *)
(* Strings are sequences of words; lower() acts word by word and the       *)
(* Python test "a in b" on two strings is containment of a as a run of     *)
(* consecutive words of b.                                                 *)
(*                                                                         *)
(* A handler h is an action h(args), the change it makes to DB, and an     *)
(* operator h_returns(args), the response it sends from the state it was   *)
(* called in.                                                              *)
(***************************************************************************)
EXTENDS Integers, Sequences, FiniteSets, TLC

VARIABLES
    roles,                  \* DB["roles"]: role_id -> Role dict
    candidates,             \* DB["candidates"]: cand_id -> profile dict
    candidate_submissions,  \* DB["candidate_submissions"]: sub_id -> dict
    matches,                \* DB["matches"]: mr_id -> match dict
    minted,                 \* how many share tokens uuid4 has produced
    issued,                 \* every <<role_id, token>> a share request returned
    threads,                \* the share requests in flight (threaded variant)
    fn_in,                  \* the argument, when one function is run alone
    fn_out                  \* its result

vars == <<roles, candidates, candidate_submissions, matches, minted, issued,
          threads, fn_in, fn_out>>

\* ------------------------------------------------------------------ bounds
MaxRoles == 2
MaxSubs == 2
MaxMatches == 3
MaxJdLen == 3
MaxList == 2
MaxSkills == 2
MaxThreads == 2

\* ----------------------------------------------------------------- helpers
None == <<>>

Max(a, b) == IF a >= b THEN a ELSE b

Range(s) == {s[i] : i \in 1..Len(s)}

SeqsUpTo(S, n) == UNION {[1..k -> S] : k \in 0..n}

\* str.lower(), word by word
LowerWord(w) ==
    CASE w = "Python" -> "python"
      [] w = "PYTHON" -> "python"
      [] w = "Backend" -> "backend"
      [] w = "3Y+" -> "3y+"
      [] w = "FastAPI" -> "fastapi"
      [] w = "AWS" -> "aws"
      [] w = "Postgres" -> "postgres"
      [] w = "Korean" -> "korean"
      [] w = "C1" -> "c1"
      [] w = "ML" -> "ml"
      [] w = "Java" -> "java"
      [] OTHER -> w

\* a text used as written
lower_forgotten(s) == s

lower(s) == [i \in 1..Len(s) |-> LowerWord(s[i])]

\* Python's  a in b  on strings
contains(a, b) ==
    \E i \in 0..(Len(b) - Len(a)) : SubSeq(b, i + 1, i + Len(a)) = a

\* list(dict.fromkeys(xs)): first occurrences, in order
RECURSIVE fromkeys(_)
fromkeys(xs) ==
    IF xs = <<>> THEN <<>>
    ELSE LET front == fromkeys(SubSeq(xs, 1, Len(xs) - 1))
             last == xs[Len(xs)]
         IN IF last \in Range(front) THEN front ELSE Append(front, last)

\* ------------------------------------------------------------- the drafter
DEFAULT_RTI ==
    [must |-> << <<"3y+", "backend">>, <<"Python">>, <<"Korean", "C1">> >>,
     nice |-> << <<"FastAPI">>, <<"AWS">>, <<"ML", "ops">> >>,
     knockout |-> <<"No work authorization">>,
     weights |-> [must |-> 6, nice |-> 3, bonus |-> 1],
     compensation |-> <<>>,
     screen_questions |-> <<"Latest backend project?", "Visa status?",
                            "Notice period?">>]

draft_must(text) ==
    (IF contains(<<"python">>, text) THEN << <<"Python">> >> ELSE <<>>)
    \o (IF contains(<<"backend">>, text) THEN << <<"3y+", "backend">> >> ELSE <<>>)

draft_nice(text) ==
    SelectSeq(<< <<"FastAPI">>, <<"AWS">>, <<"Postgres">> >>,
              LAMBDA s : contains(lower(s), text))

draft_rti(jd_raw) ==
    LET text == lower(jd_raw)
        must == draft_must(text)
        nice == draft_nice(text)
    IN [must |-> fromkeys(IF must = <<>> THEN DEFAULT_RTI.must ELSE must),
        nice |-> fromkeys(IF nice = <<>> THEN DEFAULT_RTI.nice ELSE nice),
        knockout |-> DEFAULT_RTI.knockout,
        weights |-> DEFAULT_RTI.weights,
        compensation |-> <<>>,
        screen_questions |-> DEFAULT_RTI.screen_questions]

\* -------------------------------------------------------------- the scorer
\* CandidateProfile(**d): the fields of the model, anything else dropped
CandidateProfile(d) == [email |-> d.email, skills |-> d.skills]

\* a skill test that compares the strings as written
hit_as_written(req, skills) == \E s \in skills : contains(req, s)

\* any(req.lower() in s.lower() for s in skills)
hit(req, skills) == \E s \in skills : contains(lower(req), lower(s))

\* a denominator without its floor of 1
rules_total_unfloored(rti) == Len(rti.must)

rules_total(rti) == Max(1, Len(rti.must))

nice_total(rti) == Max(1, Len(rti.nice))

rules_hits(rti, skills) ==
    Cardinality({i \in 1..Len(rti.must) : hit(rti.must[i], skills)})

nice_hits(rti, skills) ==
    Cardinality({i \in 1..Len(rti.nice) : hit(rti.nice[i], skills)})

rationale_of(rti, skills) ==
    [i \in 1..Len(rti.must) |->
        IF hit(rti.must[i], skills) THEN <<"+", rti.must[i], "(must)">>
        ELSE <<"-", rti.must[i], "(missing)">>]

\* round(num / den) as Python 3 rounds: to nearest, a tie to the even side
round(num, den) ==
    LET q == num \div den
        r == num % den
    IN IF 2 * r > den THEN q + 1
       ELSE IF 2 * r < den THEN q
       ELSE IF q % 2 = 0 THEN q ELSE q + 1

\* int(round(100 * (0.7 * rh / rt + 0.3 * nh / nt))).  The quotient is taken
\* exactly; for lists of up to three entries, the longest reached here, the
\* double-precision value rounds to the same integer.
raw_score(rh, rt, nh, nt) == round(70 * rh * nt + 30 * nh * rt, rt * nt)

\* not prof.consent_bool if hasattr(prof, 'consent_bool') else False
no_consent(prof) ==
    IF "consent_bool" \in DOMAIN prof THEN ~prof.consent_bool ELSE FALSE

ZeroDivisionError == [error |-> "ZeroDivisionError"]

compute_score(rti, prof) ==
    IF prof = None
    THEN [candidate_id |-> "", score_int |-> 0,
          rationale |-> << <<"No profile">> >>, flags |-> <<"KO: empty profile">>]
    ELSE IF rules_total(rti) = 0 \/ nice_total(rti) = 0
    THEN ZeroDivisionError
    ELSE LET skills == Range(prof.skills)
             flags0 == IF prof.email = "" THEN <<"Missing email">> ELSE <<>>
             score == raw_score(rules_hits(rti, skills), rules_total(rti),
                                nice_hits(rti, skills), nice_total(rti))
         IN [candidate_id |-> "",
             score_int |-> IF no_consent(prof) THEN 0 ELSE score,
             rationale |-> rationale_of(rti, skills),
             flags |-> IF no_consent(prof) THEN Append(flags0, "No consent")
                       ELSE flags0]

\* ------------------------------------------------------------ request data
RTI(must, nice) ==
    [must |-> must, nice |-> nice, knockout |-> <<>>,
     weights |-> [must |-> 6, nice |-> 3, bonus |-> 1],
     compensation |-> <<>>, screen_questions |-> <<>>]

Titles == {"Backend Engineer"}

JdSamples == {<<"Python", "Backend", "FastAPI", "AWS">>}

RtiSamples == {RTI(<<>>, <<>>), RTI(<< <<"Python">> >>, << <<"AWS">> >>)}

ProfileSamples ==
    {[email |-> "a@example.com",
      skills |-> << <<"PYTHON">>, <<"aws">>, <<"FastAPI">> >>],
     [email |-> "", skills |-> <<>>]}

RoleCreate == [title : Titles, jd_raw : JdSamples]

RTIUpdate == [rti_json : RtiSamples]

CandidateIntake ==
    [profile : ProfileSamples, resume_url : {""}, consent_bool : BOOLEAN]

MinScores == {0, 50}

\* the role identifiers a request may name: the known ones and one unknown
RoleIds == 1..(Len(roles) + 1)

\* the tokens a request may carry: every one minted and one never minted
Tokens == {<<n>> : n \in 1..(minted + 1)}

\* HTTPException(404, detail)
NotFound(detail) == [status |-> 404, detail |-> detail]

Ok(body) == [status |-> 200, body |-> body]

\* ---------------------------------------------------------------- handlers
\* Role(id=role_id, rti_json=draft_rti(payload.jd_raw), **payload.dict())
Role(role_id, payload) ==
    [id |-> role_id, title |-> payload.title, jd_raw |-> payload.jd_raw,
     rti_json |-> draft_rti(payload.jd_raw), share_token |-> None]

create_role_returns(payload) == Ok(Role(Len(roles) + 1, payload))

\* POST /roles
create_role(payload) ==
    /\ Len(roles) < MaxRoles
    /\ roles' = Append(roles, Role(Len(roles) + 1, payload))
    /\ UNCHANGED <<candidates, candidate_submissions, matches, minted, issued,
                   threads, fn_in, fn_out>>

\* an update that merges: an empty list in the payload keeps the old one
update_rti_merging(role_id, payload) ==
    /\ IF role_id \notin DOMAIN roles
       THEN UNCHANGED roles
       ELSE roles' = [roles EXCEPT ![role_id].rti_json =
                         [payload.rti_json EXCEPT
                             !.must = IF payload.rti_json.must = <<>>
                                      THEN roles[role_id].rti_json.must
                                      ELSE payload.rti_json.must]]
    /\ UNCHANGED <<candidates, candidate_submissions, matches, minted, issued,
                   threads, fn_in, fn_out>>

update_rti_returns(role_id, payload) ==
    IF role_id \notin DOMAIN roles THEN NotFound("Role not found")
    ELSE Ok([roles[role_id] EXCEPT !.rti_json = payload.rti_json])

\* PUT /roles/{role_id}/rti
update_rti(role_id, payload) ==
    /\ IF role_id \notin DOMAIN roles
       THEN UNCHANGED roles
       ELSE roles' = [roles EXCEPT ![role_id].rti_json = payload.rti_json]
    /\ UNCHANGED <<candidates, candidate_submissions, matches, minted, issued,
                   threads, fn_in, fn_out>>

\* a share link minted anew at every request
token_always_minted(stored, fresh) == fresh

\* role.get("share_token") or uuid4().hex[:12]
token_or_mint(stored, fresh) == IF stored # None THEN stored ELSE fresh

get_share_returns(role_id) ==
    IF role_id \notin DOMAIN roles THEN NotFound("Role not found")
    ELSE Ok([share_token |->
                token_or_mint(roles[role_id].share_token, <<minted + 1>>)])

\* GET /roles/{role_id}/share
get_share(role_id) ==
    /\ IF role_id \notin DOMAIN roles
       THEN UNCHANGED <<roles, minted, issued>>
       ELSE LET stored == roles[role_id].share_token
                token == token_or_mint(stored, <<minted + 1>>)
            IN /\ minted' = IF stored # None THEN minted ELSE minted + 1
               /\ roles' = [roles EXCEPT ![role_id].share_token = token]
               /\ issued' = issued \cup {<<role_id, token>>}
    /\ UNCHANGED <<candidates, candidate_submissions, matches, threads,
                   fn_in, fn_out>>

\* a lookup that takes the first role whatever the token
role_of_token_unchecked(share_token) ==
    IF roles = <<>> THEN None ELSE <<1>>

\* next((rid for rid, r in DB["roles"].items() if r.get("share_token") == t), None)
role_of_token(share_token) ==
    LET hits == {rid \in DOMAIN roles : roles[rid].share_token = share_token}
    IN IF hits = {} THEN None
       ELSE <<CHOOSE rid \in hits : \A other \in hits : rid <= other>>

apply_to_role_returns(share_token, payload) ==
    IF role_of_token(share_token) = None THEN NotFound("Role token invalid")
    ELSE Ok([candidate_id |-> Len(candidates) + 1])

\* POST /apply/{share_token}
apply_to_role(share_token, payload) ==
    /\ LET found == role_of_token(share_token)
       IN IF found = None
          THEN UNCHANGED <<candidates, candidate_submissions>>
          ELSE /\ Len(candidate_submissions) < MaxSubs
               /\ LET cand_id == Len(candidates) + 1
                      sub_id == Len(candidate_submissions) + 1
                  IN /\ candidates' = Append(candidates, payload.profile)
                     /\ candidate_submissions' =
                            Append(candidate_submissions,
                                   [id |-> sub_id, role_id |-> found[1],
                                    candidate_id |-> cand_id,
                                    resume_url |-> payload.resume_url,
                                    profile_json |-> payload.profile,
                                    consent_bool |-> payload.consent_bool])
    /\ UNCHANGED <<roles, matches, minted, issued, threads, fn_in, fn_out>>

\* [s for s in DB["candidate_submissions"].values() if s["role_id"] == role_id]
subs_of(role_id) ==
    SelectSeq(candidate_submissions, LAMBDA s : s.role_id = role_id)

\* compute_score on the submission's profile snapshot, then mr_dict.update(...)
match_record(rti, s, mr_id, role_id) ==
    LET mr == compute_score(rti, CandidateProfile(s.profile_json))
    IN IF mr = ZeroDivisionError THEN mr
       ELSE [candidate_id |-> s.candidate_id, score_int |-> mr.score_int,
             rationale |-> mr.rationale, flags |-> mr.flags,
             id |-> mr_id, role_id |-> role_id]

\* a scoring run that replaces the role's earlier records
insert_matches_replacing(old, new) ==
    IF new = <<>> THEN old
    ELSE SelectSeq(old, LAMBDA m : m.role_id # new[1].role_id) \o new

\* DB["matches"][mr_id] = mr_dict, once per new record, each under a new id
insert_matches(old, new) == old \o new

\* the new records of POST /match/{role_id}, in the order they are computed
new_matches(role_id) ==
    LET subs == subs_of(role_id)
    IN [i \in 1..Len(subs) |->
           match_record(roles[role_id].rti_json, subs[i], Len(matches) + i,
                        role_id)]

\* how many of them are stored before compute_score raises, if it does
stored_before_raise(new) ==
    LET failed == {i \in 1..Len(new) : new[i] = ZeroDivisionError}
    IN IF failed = {} THEN Len(new)
       ELSE (CHOOSE i \in failed : \A j \in failed : i <= j) - 1

match_role_returns(role_id) ==
    IF role_id \notin DOMAIN roles THEN NotFound("Role not found")
    ELSE LET new == new_matches(role_id)
         IN IF stored_before_raise(new) = Len(new) THEN Ok([scored |-> Len(new)])
            ELSE [status |-> 500, detail |-> "Internal Server Error"]

\* POST /match/{role_id}
match_role(role_id) ==
    /\ IF role_id \notin DOMAIN roles
       THEN UNCHANGED matches
       ELSE LET new == new_matches(role_id)
            IN /\ Len(matches) + Len(new) <= MaxMatches
               /\ matches' =
                     insert_matches(matches,
                                    SubSeq(new, 1, stored_before_raise(new)))
    /\ UNCHANGED <<roles, candidates, candidate_submissions, minted, issued,
                   threads, fn_in, fn_out>>

\* a shortlist that forgets to sort
sort_forgotten(rows) == rows

\* rows.sort(key=score_int, reverse=True): stable, the larger score first
RECURSIVE sort_desc(_)
sort_desc(rows) ==
    IF rows = <<>> THEN <<>>
    ELSE LET h == Head(rows)
             rest == sort_desc(Tail(rows))
             k == Cardinality({i \in 1..Len(rest) : rest[i].score_int > h.score_int})
         IN SubSeq(rest, 1, k) \o <<h>> \o SubSeq(rest, k + 1, Len(rest))

\* the rows of GET /shortlist/{role_id}?min_score=, filtered and sorted
shortlist_rows(role_id, min_score) ==
    sort_desc(SelectSeq(matches, LAMBDA m : /\ m.role_id = role_id
                                           /\ m.score_int >= min_score))

MatchResult(r) ==
    [candidate_id |-> r.candidate_id, score_int |-> r.score_int,
     rationale |-> r.rationale, flags |-> r.flags]

shortlist_returns(role_id, min_score) ==
    LET rows == shortlist_rows(role_id, min_score)
    IN Ok([i \in 1..Len(rows) |-> MatchResult(rows[i])])

\* GET /shortlist/{role_id}: reads only
shortlist(role_id, min_score) ==
    /\ shortlist_returns(role_id, min_score).status = 200
    /\ UNCHANGED vars

\* ------------------------------------------------- one request at a time
Init ==
    /\ roles = <<>>
    /\ candidates = <<>>
    /\ candidate_submissions = <<>>
    /\ matches = <<>>
    /\ minted = 0
    /\ issued = {}
    /\ threads = <<>>
    /\ fn_in = None
    /\ fn_out = None

CreateRole == \E payload \in RoleCreate : create_role(payload)

UpdateRti == \E role_id \in RoleIds, payload \in RTIUpdate : update_rti(role_id, payload)

GetShare == \E role_id \in RoleIds : get_share(role_id)

Apply == \E share_token \in Tokens, payload \in CandidateIntake :
            apply_to_role(share_token, payload)

MatchRole == \E role_id \in RoleIds : match_role(role_id)

Shortlist == \E role_id \in RoleIds, min_score \in MinScores :
                shortlist(role_id, min_score)

Next ==
    \/ CreateRole
    \/ UpdateRti
    \/ GetShare
    \/ Apply
    \/ MatchRole
    \/ Shortlist

Spec == Init /\ [][Next]_vars

\* ------------------------------------------- the drafter on every short text
JdWords == {"Python", "PYTHON", "backend", "Backend", "FastAPI", "aws", "Java"}

JdTexts == SeqsUpTo(JdWords, MaxJdLen)

InitDraft ==
    /\ roles = <<>>
    /\ candidates = <<>>
    /\ candidate_submissions = <<>>
    /\ matches = <<>>
    /\ minted = 0
    /\ issued = {}
    /\ threads = <<>>
    /\ fn_in \in JdTexts
    /\ fn_out = None

\* the first POST /roles, with the text drawn as jd_raw
DraftRole ==
    /\ roles = <<>>
    /\ \E title \in Titles : create_role([title |-> title, jd_raw |-> fn_in])

SpecDraft == InitDraft /\ [][DraftRole]_vars

\* ----------------------------------------------------- the scorer run alone
MustPool == {<<"Python">>, <<"3y+", "backend">>}

NicePool == {<<"FastAPI">>, <<"AWS">>}

SkillPool == {<<"PYTHON", "3Y+", "Backend">>, <<"aws">>, <<"fastapi">>}

ScoreRtis ==
    {RTI(must, nice) : must \in SeqsUpTo(MustPool, MaxList),
                       nice \in SeqsUpTo(NicePool, MaxList)}

\* what compute_score may be handed: no profile, a CandidateProfile, or an
\* object that also carries a consent_bool attribute
ScoreProfs ==
    {None}
    \cup [email : {"", "a@example.com"}, skills : SeqsUpTo(SkillPool, MaxSkills)]
    \cup [email : {"", "a@example.com"}, skills : SeqsUpTo(SkillPool, MaxSkills),
          consent_bool : BOOLEAN]

InitScore ==
    /\ roles = <<>>
    /\ candidates = <<>>
    /\ candidate_submissions = <<>>
    /\ matches = <<>>
    /\ minted = 0
    /\ issued = {}
    /\ threads = <<>>
    /\ fn_in \in [rti : ScoreRtis, prof : ScoreProfs]
    /\ fn_out = None

Score ==
    /\ fn_out = None
    /\ fn_out' = compute_score(fn_in.rti, fn_in.prof)
    /\ UNCHANGED <<roles, candidates, candidate_submissions, matches, minted,
                   issued, threads, fn_in>>

SpecScore == InitScore /\ [][Score]_vars

\* ------------------------------- share requests served by threads of a pool
\* get_share, statement by statement; each thread serves one request
Idle == [pc |-> "idle", role_id |-> 0, token |-> None]

\* role = DB["roles"].get(role_id); if not role: raise HTTPException(404, ...)
share_lookup(t, role_id) ==
    /\ threads[t].pc = "idle"
    /\ threads' = [threads EXCEPT ![t] =
                      IF role_id \notin DOMAIN roles
                      THEN [pc |-> "done", role_id |-> role_id, token |-> None]
                      ELSE [pc |-> "token", role_id |-> role_id, token |-> None]]
    /\ UNCHANGED <<roles, candidates, candidate_submissions, matches, minted,
                   issued, fn_in, fn_out>>

\* token = role.get("share_token") or uuid4().hex[:12]
share_read_or_mint(t) ==
    /\ threads[t].pc = "token"
    /\ LET stored == roles[threads[t].role_id].share_token
       IN /\ threads' = [threads EXCEPT ![t].pc = "store",
                                        ![t].token =
                                            token_or_mint(stored, <<minted + 1>>)]
          /\ minted' = IF stored # None THEN minted ELSE minted + 1
    /\ UNCHANGED <<roles, candidates, candidate_submissions, matches, issued,
                   fn_in, fn_out>>

\* a request that returns its token without storing it
share_store_skipped(t) ==
    /\ threads[t].pc = "store"
    /\ threads' = [threads EXCEPT ![t].pc = "return"]
    /\ UNCHANGED <<roles, candidates, candidate_submissions, matches, minted,
                   issued, fn_in, fn_out>>

\* role["share_token"] = token; DB["roles"][role_id] = role
share_store(t) ==
    /\ threads[t].pc = "store"
    /\ roles' = [roles EXCEPT ![threads[t].role_id].share_token = threads[t].token]
    /\ threads' = [threads EXCEPT ![t].pc = "return"]
    /\ UNCHANGED <<candidates, candidate_submissions, matches, minted, issued,
                   fn_in, fn_out>>

\* return {"share_token": token}
share_return(t) ==
    /\ threads[t].pc = "return"
    /\ issued' = issued \cup {<<threads[t].role_id, threads[t].token>>}
    /\ threads' = [threads EXCEPT ![t].pc = "done"]
    /\ UNCHANGED <<roles, candidates, candidate_submissions, matches, minted,
                   fn_in, fn_out>>

InitThreads ==
    /\ roles = <<>>
    /\ candidates = <<>>
    /\ candidate_submissions = <<>>
    /\ matches = <<>>
    /\ minted = 0
    /\ issued = {}
    /\ threads = [t \in 1..MaxThreads |-> Idle]
    /\ fn_in = None
    /\ fn_out = None

\* the applications sent while share requests are in flight
ApplyDuringShare ==
    \E share_token \in Tokens, profile \in ProfileSamples :
        apply_to_role(share_token, [profile |-> profile, resume_url |-> "",
                                    consent_bool |-> TRUE])

ShareLookup == \E t \in DOMAIN threads, role_id \in RoleIds : share_lookup(t, role_id)

ShareReadOrMint == \E t \in DOMAIN threads : share_read_or_mint(t)

ShareStore == \E t \in DOMAIN threads : share_store(t)

ShareReturn == \E t \in DOMAIN threads : share_return(t)

NextThreads ==
    \/ CreateRole
    \/ ShareLookup
    \/ ShareReadOrMint
    \/ ShareStore
    \/ ShareReturn
    \/ ApplyDuringShare

SpecThreads == InitThreads /\ [][NextThreads]_vars

\* ================================================================= claims
matches_of(role_id) == {i \in DOMAIN matches : matches[i].role_id = role_id}

submissions_of(role_id) ==
    {i \in DOMAIN candidate_submissions :
        candidate_submissions[i].role_id = role_id}

\* C1: every Match record made for a submission that was sent with
\* consent=false has score 0 and carries the "No consent" flag, whatever the
\* candidate's skills.
C1_NoConsentScoresZero ==
    \A i \in DOMAIN matches, j \in DOMAIN candidate_submissions :
        (/\ candidate_submissions[j].candidate_id = matches[i].candidate_id
         /\ ~candidate_submissions[j].consent_bool)
        => /\ matches[i].score_int = 0
           /\ "No consent" \in Range(matches[i].flags)

\* C2: a Score role run on a known role with M submissions and N Match
\* records leaves N+M Match records for the role, keeps every earlier record
\* as it was, adds one record per submission and returns the count M.
C2_RerunAppends ==
    [][\A role_id \in DOMAIN roles :
          match_role(role_id) =>
            LET N == Cardinality(matches_of(role_id))
                M == Cardinality(submissions_of(role_id))
            IN /\ Cardinality({i \in DOMAIN matches' :
                                  matches'[i].role_id = role_id}) = N + M
               /\ Len(matches') = Len(matches) + M
               /\ SubSeq(matches', 1, Len(matches)) = matches
               /\ \A j \in submissions_of(role_id) :
                     \E i \in (Len(matches) + 1)..Len(matches') :
                        /\ matches'[i].role_id = role_id
                        /\ matches'[i].candidate_id =
                              candidate_submissions[j].candidate_id
               /\ match_role_returns(role_id) = Ok([scored |-> M])]_vars

\* C2 witness: a role scored again after an RTI update: two records of one
\* candidate with different scores, more records than submissions.
C2_Witness ==
    \E role_id \in DOMAIN roles :
        /\ submissions_of(role_id) # {}
        /\ Cardinality(matches_of(role_id)) > Cardinality(submissions_of(role_id))
        /\ \E i, j \in matches_of(role_id) :
              /\ i < j
              /\ matches[i].candidate_id = matches[j].candidate_id
              /\ matches[i].score_int # matches[j].score_int

\* Between two stored scores every threshold selects the same records, so
\* the thresholds that can tell two shortlists apart are each stored score,
\* its successor, and the two ends of the scale.
ThresholdsChecked ==
    {0, 101} \cup {matches[i].score_int : i \in DOMAIN matches}
             \cup {matches[i].score_int + 1 : i \in DOMAIN matches}

\* C3: for every role identifier and threshold k the shortlist holds exactly
\* the role's Match records with score >= k, each once, and its scores do
\* not increase from one position to the next.
C3_ShortlistExactAndSorted ==
    \A role_id \in RoleIds, k \in ThresholdsChecked :
        \A rows \in {shortlist_rows(role_id, k)},
           body \in {shortlist_returns(role_id, k).body} :
           /\ {rows[i].id : i \in DOMAIN rows} =
                 {matches[i].id : i \in {n \in matches_of(role_id) :
                                            matches[n].score_int >= k}}
           /\ \A i, j \in DOMAIN rows : i # j => rows[i].id # rows[j].id
           /\ \A i \in DOMAIN rows : matches[rows[i].id] = rows[i]
           /\ Len(body) = Len(rows)
           /\ \A i \in DOMAIN body :
                 /\ body[i].score_int = rows[i].score_int
                 /\ body[i].candidate_id = rows[i].candidate_id
                 /\ body[i].score_int >= k
           /\ \A i, j \in DOMAIN body :
                 i < j => body[i].score_int >= body[j].score_int

\* C3 witness: a role whose records were stored with the lower score first,
\* a threshold that keeps some of them and drops others, and a record of
\* another role in the store.
C3_Witness ==
    \E role_id \in DOMAIN roles :
        /\ \E i, j \in matches_of(role_id) :
              i < j /\ matches[i].score_int < matches[j].score_int
        /\ \E i \in DOMAIN matches : matches[i].role_id # role_id
        /\ \E k \in ThresholdsChecked :
              /\ Len(shortlist_rows(role_id, k)) >= 1
              /\ Len(shortlist_rows(role_id, k)) < Len(shortlist_rows(role_id, 0))

\* C4: any two share requests for one role return the same token, which is
\* the token the role stores, whatever ran between them; a share request for
\* an unknown role is answered not-found and mints nothing.
C4_ShareTokenStable ==
    /\ [](/\ \A a, b \in issued : a[1] = b[1] => a[2] = b[2]
          /\ \A a \in issued : roles[a[1]].share_token = a[2]
          /\ \A role_id \in DOMAIN roles :
                roles[role_id].share_token # None =>
                    get_share_returns(role_id) =
                        Ok([share_token |-> roles[role_id].share_token])
          /\ \A role_id \in RoleIds \ DOMAIN roles :
                get_share_returns(role_id).status = 404)
    /\ [][/\ \A role_id \in RoleIds \ DOMAIN roles :
                get_share(role_id) => UNCHANGED <<roles, minted, issued>>
          /\ \A role_id \in DOMAIN roles :
                roles[role_id].share_token # None =>
                    roles'[role_id].share_token = roles[role_id].share_token]_vars

\* C4 witness: a role whose token was returned, then its RTI replaced, a
\* candidate taken in and scored, with a second role holding its own token.
C4_Witness ==
    \E a, b \in issued :
        /\ a[1] # b[1]
        /\ roles[a[1]].rti_json \in RtiSamples
        /\ submissions_of(a[1]) # {}
        /\ matches_of(a[1]) # {}

\* C5: Apply with a token no role carries is answered invalid-token and
\* leaves candidates and submissions as they were; with a token a role
\* carries it adds exactly one Candidate and one Submission, the submission
\* owned by that role and naming the new candidate identifier, which is the
\* one returned, even if the same profile was taken in before.
C5_ApplyCreatesOneOfEach ==
    [][\A share_token \in Tokens, payload \in CandidateIntake :
          apply_to_role(share_token, payload) =>
            LET carriers == {role_id \in DOMAIN roles :
                                roles[role_id].share_token = share_token}
                out == apply_to_role_returns(share_token, payload)
            IN IF carriers = {}
               THEN /\ out.status = 404
                    /\ UNCHANGED <<candidates, candidate_submissions>>
               ELSE /\ out.status = 200
                    /\ out.body.candidate_id \notin DOMAIN candidates
                    /\ DOMAIN candidates' =
                          DOMAIN candidates \cup {out.body.candidate_id}
                    /\ \A c \in DOMAIN candidates : candidates'[c] = candidates[c]
                    /\ candidates'[out.body.candidate_id] = payload.profile
                    /\ Len(candidate_submissions') = Len(candidate_submissions) + 1
                    /\ SubSeq(candidate_submissions', 1, Len(candidate_submissions))
                          = candidate_submissions
                    /\ LET sub == candidate_submissions'[Len(candidate_submissions')]
                       IN /\ sub.role_id \in carriers
                          /\ sub.candidate_id = out.body.candidate_id
                          /\ sub.profile_json = payload.profile
                          /\ sub.consent_bool = payload.consent_bool]_vars

\* C5 witness: the same profile, with its email, taken in twice through one
\* role's token while another role holds a different token: two candidates,
\* two submissions.
C5_Witness ==
    /\ \E i, j \in DOMAIN candidate_submissions :
          /\ i # j
          /\ candidate_submissions[i].profile_json =
                candidate_submissions[j].profile_json
          /\ candidate_submissions[i].profile_json.email # ""
          /\ candidate_submissions[i].candidate_id #
                candidate_submissions[j].candidate_id
          /\ candidate_submissions[i].role_id = candidate_submissions[j].role_id
          /\ candidate_submissions[i].role_id = 2
    /\ Len(candidates) = 2
    /\ \A role_id \in DOMAIN roles : roles[role_id].share_token # None

\* C6: Update RTI on an unknown role is answered not-found and changes no
\* record; on a known role the stored RTI becomes the supplied one, field for
\* field, and the role's id, title, text and token, the other roles, the
\* submissions and the Match records stay as they were.
C6_UpdateReplacesRtiOnly ==
    [][\A role_id \in RoleIds, payload \in RTIUpdate :
          update_rti(role_id, payload) =>
            /\ UNCHANGED <<candidates, candidate_submissions, matches, minted>>
            /\ IF role_id \notin DOMAIN roles
               THEN /\ update_rti_returns(role_id, payload).status = 404
                    /\ UNCHANGED roles
               ELSE /\ update_rti_returns(role_id, payload).status = 200
                    /\ DOMAIN roles' = DOMAIN roles
                    /\ roles'[role_id].rti_json = payload.rti_json
                    /\ roles'[role_id].id = roles[role_id].id
                    /\ roles'[role_id].title = roles[role_id].title
                    /\ roles'[role_id].jd_raw = roles[role_id].jd_raw
                    /\ roles'[role_id].share_token = roles[role_id].share_token
                    /\ \A other \in DOMAIN roles \ {role_id} :
                          roles'[other] = roles[other]]_vars

\* C6 witness: a shared role that has submissions and Match records and whose
\* drafted RTI was replaced by one with empty lists, next to a role that
\* still has its drafted RTI.
C6_Witness ==
    \E role_id, other \in DOMAIN roles :
        /\ roles[role_id].rti_json = RTI(<<>>, <<>>)
        /\ roles[role_id].share_token # None
        /\ submissions_of(role_id) # {}
        /\ matches_of(role_id) # {}
        /\ roles[other].rti_json = draft_rti(roles[other].jd_raw)

\* C8: every stored Match record has an integer score from 0 to 100, and
\* Score role on a known role answers 200, also when the role's must-have or
\* nice-to-have list is empty.
C8_ScoreInRangeNeverFails ==
    /\ \A i \in DOMAIN matches :
          /\ matches[i].score_int \in Int
          /\ 0 <= matches[i].score_int
          /\ matches[i].score_int <= 100
    /\ \A role_id \in DOMAIN roles : match_role_returns(role_id).status = 200

\* C8 witness: a role whose lists were emptied by an RTI update and that was
\* scored in that condition (a record with no rationale line), beside a
\* record with a score strictly between 0 and 100.
C8_Witness ==
    /\ \E role_id \in DOMAIN roles :
          /\ roles[role_id].rti_json.must = <<>>
          /\ roles[role_id].rti_json.nice = <<>>
          /\ \E i \in matches_of(role_id) : matches[i].rationale = <<>>
    /\ \E i \in DOMAIN matches :
          0 < matches[i].score_int /\ matches[i].score_int < 100

\* a profile's skills cover a list: each string of the list is, letter case
\* aside, part of some skill
Covers(list, prof) ==
    \A i \in DOMAIN list :
        \E n \in DOMAIN prof.skills :
            contains(lower(list[i]), lower(prof.skills[n]))

ConsentGiven(prof) == "consent_bool" \in DOMAIN prof => prof.consent_bool

FullCover ==
    /\ fn_out # None
    /\ fn_in.prof # None
    /\ ConsentGiven(fn_in.prof)
    /\ Covers(fn_in.rti.must, fn_in.prof)
    /\ Covers(fn_in.rti.nice, fn_in.prof)

\* C7 as claimed: for every RTI, a consenting profile whose skills cover
\* every must-have and every nice-to-have string gets rules_score 1,
\* nice_score 1 and score 100.
C7_FullCoverScores100 ==
    FullCover =>
        /\ rules_hits(fn_in.rti, Range(fn_in.prof.skills)) = rules_total(fn_in.rti)
        /\ nice_hits(fn_in.rti, Range(fn_in.prof.skills)) = nice_total(fn_in.rti)
        /\ fn_out.score_int = 100

\* C7 amended: for every RTI with at least one must-have and one
\* nice-to-have string, such a profile gets rules_score 1, nice_score 1 and
\* score 100; an empty list counts 0 hits out of 1, so with an empty
\* must-have list the score is 30, with an empty nice-to-have list 70, with
\* both empty 0.
C7_FullCoverScoresByNonEmptyList ==
    FullCover =>
        /\ fn_in.rti.must # <<>> =>
              rules_hits(fn_in.rti, Range(fn_in.prof.skills)) = rules_total(fn_in.rti)
        /\ fn_in.rti.nice # <<>> =>
              nice_hits(fn_in.rti, Range(fn_in.prof.skills)) = nice_total(fn_in.rti)
        /\ (fn_in.rti.must # <<>> /\ fn_in.rti.nice # <<>>) =>
              fn_out.score_int = 100
        /\ fn_out.score_int = (IF fn_in.rti.must # <<>> THEN 70 ELSE 0)
                              + (IF fn_in.rti.nice # <<>> THEN 30 ELSE 0)

\* C7 witness: a scored consenting profile that covers a two-string
\* must-have list and a nice-to-have list only through a change of letter
\* case, and scores 100.
C7_Witness ==
    /\ FullCover
    /\ Len(fn_in.rti.must) = 2
    /\ fn_in.rti.must[1] # fn_in.rti.must[2]
    /\ fn_in.rti.nice # <<>>
    /\ \A n \in DOMAIN fn_in.prof.skills :
          /\ ~contains(fn_in.rti.must[1], fn_in.prof.skills[n])
          /\ ~contains(fn_in.rti.nice[1], fn_in.prof.skills[n])
    /\ fn_out.score_int = 100

HasWord(text, word) == \E i \in DOMAIN text : LowerWord(text[i]) = word

\* C9: the must-have list drafted at Create role is "Python" if the text has
\* "python" in any letter case, then "3y+ backend" if it has "backend", each
\* at most once; with neither keyword it is the default must-have list.
C9_DraftedMustList ==
    \A role_id \in DOMAIN roles :
        LET text == roles[role_id].jd_raw
            must == roles[role_id].rti_json.must
            python == HasWord(text, "python")
            backend == HasWord(text, "backend")
        IN /\ (python /\ backend) => must = << <<"Python">>, <<"3y+", "backend">> >>
           /\ (python /\ ~backend) => must = << <<"Python">> >>
           /\ (~python /\ backend) => must = << <<"3y+", "backend">> >>
           /\ (~python /\ ~backend) =>
                 must = << <<"3y+", "backend">>, <<"Python">>, <<"Korean", "C1">> >>
           /\ \A i, j \in DOMAIN must : i # j => must[i] # must[j]

\* C9 witness: a role drafted from a text that names python twice, in two
\* letter cases neither of which is the lower-case one, and backend once.
C9_Witness ==
    \E role_id \in DOMAIN roles :
        /\ roles[role_id].jd_raw = <<"PYTHON", "Python", "Backend">>
        /\ roles[role_id].rti_json.must = << <<"Python">>, <<"3y+", "backend">> >>

tokens_issued(role_id) == {a[2] : a \in {b \in issued : b[1] = role_id}}

in_flight(role_id) ==
    {t \in DOMAIN threads : /\ threads[t].role_id = role_id
                            /\ threads[t].pc \in {"token", "store", "return"}}

\* C10 as claimed: share requests for one role that interleave all return
\* the same token, and Apply accepts every token a share request returned,
\* for that role.
C10_InterleavedSharesAgree ==
    /\ \A a, b \in issued : a[1] = b[1] => a[2] = b[2]
    /\ \A a \in issued, payload \in CandidateIntake :
          /\ apply_to_role_returns(a[2], payload).status = 200
          /\ role_of_token(a[2]) = <<a[1]>>

\* C10 amended: share requests for one role that interleave may each mint
\* and return a token of their own; the role keeps the token stored last,
\* which is one of the returned tokens once no request on the role is in
\* flight, and Apply accepts a returned token, for that role, exactly when
\* it is the token the role still stores.
C10_LastStoredTokenWins ==
    /\ \A a \in issued, payload \in CandidateIntake :
          /\ roles[a[1]].share_token # None
          /\ (apply_to_role_returns(a[2], payload).status = 200)
                <=> (roles[a[1]].share_token = a[2])
          /\ roles[a[1]].share_token = a[2] => role_of_token(a[2]) = <<a[1]>>
    /\ \A role_id \in DOMAIN roles :
          (tokens_issued(role_id) # {} /\ in_flight(role_id) = {})
              => roles[role_id].share_token \in tokens_issued(role_id)

\* C10 witness: two finished share requests on one role that returned
\* different tokens, and a submission taken in for that role afterwards
\* through the token that was stored last.
C10_Witness ==
    \E role_id \in DOMAIN roles :
        /\ Cardinality(tokens_issued(role_id)) = 2
        /\ in_flight(role_id) = {}
        /\ submissions_of(role_id) # {}

=============================================================================
